---- MODULE Spec2Model ----
(***************************************************************************)
(* flat_unordered_map<int, T> of src/flat_buffered_unordered_map.cpp: an   *)
(* open-addressing hash table with linear probing, tombstones and growth.  *)
(*                                                                         *)
(* The table is the four fields buckets_, size_, tombstones_ and           *)
(* max_load_factor_.  Each public member function is one action; the       *)
(* private helpers are operators over a record m of the four fields.       *)
(* The factor is held in hundredths (0.7f is 70); the loads the table can  *)
(* reach are fractions with a power-of-two denominator, so the comparison  *)
(* in hundredths agrees with the comparison of floats, and for the        *)
(* factors 0.2, 0.7 and 0.94 n * 100 \div f is the truncated float n / f.  *)
(* A probe loop that comes back to its start without returning repeats     *)
(* for ever: the call never returns, which the model records as hung.      *)
(* No member function reads the key or the value of a slot that is not     *)
(* Filled (every read is behind a test of the state tag), so between calls *)
(* the state holds such a slot with the default key and value.             *)
(*                                                                         *)
(* EntityManager of src/vector_with_index_map.cpp is a second program: a   *)
(* packed vector of entities and a map from entity id to vector index.     *)
(* It has its own variables and its own specification, EntitySpec; each    *)
(* of the two specifications keeps the other program's variables fixed.    *)
(***************************************************************************)
EXTENDS Integers, Sequences, FiniteSets

\* ---------------------------------------------------------------- bounds
\* values the callers store are 1..MaxVal (0 is T{}, the default value)
MaxVal == 1
\* sizes passed to the constructor, reserve and rehash are 0..MaxReq
MaxReq == 2

\* keys the callers use; 1 and 5 share a slot at length 2 and 4, 1 and 3 at 2
Keys == {1, 2, 3, 5}
Values == 1..MaxVal
Requests == 0..MaxReq
\* factors passed to max_load_factor(f), in hundredths
FactorInputs == {5, 10, 20, 94, 95}

\* entity ids the callers of EntityManager use are 1..MaxEntityId
MaxEntityId == 3
EntityIds == 1..MaxEntityId
\* names and healths given to addEntity
Names == {"Orc", "Elf"}
Healths == {80, 100}

\* ------------------------------------------------------------- constants
\* sizeof(size_type) * 8
SizeBits == 64
\* the length rehash_if_needed gives to storage that does not exist yet
InitialCapacity == 16
\* max_load_factor_ = 0.7f
DefaultMaxLoadFactor == 70
\* Key() and T{} of a value-initialised bucket
DefaultKey == 0
DefaultValue == 0
\* static_cast<size_type>(-1) stands for "no Deleted slot seen"
NoSlot == -1

Empty == "Empty"
Filled == "Filled"
Deleted == "Deleted"

Bucket == [key |-> DefaultKey, value |-> DefaultValue, state |-> Empty]

\* buckets_, size_, tombstones_, max_load_factor_: the fields of the table
\* hung:     the last call never returned (its probe loop cannot end)
\* rehashes: how many times the last call ran rehash, nested runs included
\* last:     the last call, its key or size or factor, and what it returned
\* shadow:   the reference map the calls so far describe: key -> {} or {value}
VARIABLES buckets_, size_, tombstones_, max_load_factor_, hung, rehashes, last, shadow

vars == <<buckets_, size_, tombstones_, max_load_factor_, hung, rehashes, last, shadow>>

\* entities, indexOf: the fields of EntityManager
\* registry: the entities added and not removed since (the reference set)
\* em_last:  the last call of EntityManager, its id, the path it took, and the
\*           entity getEntity pointed to ({} for nullptr)
VARIABLES entities, indexOf, registry, em_last

emvars == <<entities, indexOf, registry, em_last>>

\* ------------------------------------------------------- bit operations
RECURSIVE BitOr(_, _)
BitOr(a, b) ==
    IF a = 0 THEN b
    ELSE IF b = 0 THEN a
    ELSE (IF a % 2 = 1 \/ b % 2 = 1 THEN 1 ELSE 0) + 2 * BitOr(a \div 2, b \div 2)

RECURSIVE BitAnd(_, _)
BitAnd(a, b) ==
    IF a = 0 \/ b = 0 THEN 0
    ELSE (IF a % 2 = 1 /\ b % 2 = 1 THEN 1 ELSE 0) + 2 * BitAnd(a \div 2, b \div 2)

\* x >> i for the sizes of the model, all below 2^30
Shr(x, i) == IF i >= 30 THEN 0 ELSE x \div (2 ^ i)

RECURSIVE Smear(_, _)
Smear(x, i) == IF i < SizeBits THEN Smear(BitOr(x, Shr(x, i)), 2 * i) ELSE x

next_pow2(x) == IF x < 2 THEN 2 ELSE Smear(x - 1, 1) + 1

\* ------------------------------------------------------ private helpers
\* buckets_[idx] of the code is b[idx + 1] here
At(b, idx) == b[idx + 1]

mask(m) == Len(m.buckets) - 1

hasher_(k) == k

\* (mutation) no two keys compare equal
KeyEqNever(a, b) == FALSE

keyeq_(a, b) == a = b

bucket_index(m, k) == BitAnd(hasher_(k), mask(m))

\* current_load() > max_load_factor_
LoadExceeds(m) == (m.size + m.tombstones) * 100 > m.mlf * Len(m.buckets)

RECURSIVE rehash(_, _)
RECURSIVE insert_or_assign_impl(_, _, _)
RECURSIVE InsertLoop(_, _, _, _, _, _)
RECURSIVE Reinsert(_, _, _)

rehash_if_needed(m) ==
    IF Len(m.buckets) = 0 \/ LoadExceeds(m)
    THEN rehash(m, IF Len(m.buckets) = 0 THEN InitialCapacity ELSE Len(m.buckets) * 2)
    ELSE m

\* (mutation) the key is always written into the Empty slot that ends the walk
InsertTargetNoReuse(idx, first_deleted) == idx

\* the slot an insert fills once the walk has met an Empty slot at idx
InsertTarget(idx, first_deleted) == IF first_deleted = NoSlot THEN idx ELSE first_deleted

\* a Deleted slot met on the walk is remembered if it is the first one
NoteDeleted(idx, first_deleted) == IF first_deleted = NoSlot THEN idx ELSE first_deleted

\* (mutation) the walk of an insert ends at the first slot that is not Filled
EndsInsertWalkAtTombstone(b) == b.state # Filled

\* the walk of an insert ends, and the key is written, at an Empty slot
EndsInsertWalk(b) == b.state = Empty

\* the for (;;) of insert_or_assign_impl; n counts the slots visited
InsertLoop(m, k, v, idx, first_deleted, n) ==
    IF n >= Len(m.buckets)
    THEN [m |-> [m EXCEPT !.hung = TRUE], pos |-> NoSlot, inserted |-> FALSE]
    ELSE LET b == At(m.buckets, idx) IN
         IF EndsInsertWalk(b)
         THEN LET target == InsertTarget(idx, first_deleted)
                  t == At(m.buckets, target)
              IN [m |-> [m EXCEPT
                           !.tombstones = IF t.state = Deleted THEN @ - 1 ELSE @,
                           !.buckets[target + 1] = [key |-> k, value |-> v, state |-> Filled],
                           !.size = @ + 1],
                  pos |-> target, inserted |-> TRUE]
         ELSE IF b.state = Deleted
         THEN InsertLoop(m, k, v, BitAnd(idx + 1, mask(m)), NoteDeleted(idx, first_deleted), n + 1)
         ELSE IF keyeq_(b.key, k)
         THEN [m |-> [m EXCEPT !.buckets[idx + 1].value = v], pos |-> idx, inserted |-> FALSE]
         ELSE InsertLoop(m, k, v, BitAnd(idx + 1, mask(m)), first_deleted, n + 1)

insert_or_assign_impl(m, k, v) ==
    LET m1 == rehash_if_needed(m) IN
    IF m1.hung
    THEN [m |-> m1, pos |-> NoSlot, inserted |-> FALSE]
    ELSE InsertLoop(m1, k, v, bucket_index(m1, k), NoSlot, 0)

\* for (auto& b : old) if (b.state == State::Filled) insert_or_assign_impl(...)
Reinsert(m, old, i) ==
    IF i > Len(old) \/ m.hung THEN m
    ELSE IF old[i].state = Filled
    THEN Reinsert(insert_or_assign_impl(m, old[i].key, old[i].value).m, old, i + 1)
    ELSE Reinsert(m, old, i + 1)

\* (mutation) the request is taken as the length, without rounding
NoRounding(n) == IF n < 2 THEN 2 ELSE n

\* the length rehash gives the new array
RehashLength(n) == LET rounded == next_pow2(n) IN IF rounded < 2 THEN 2 ELSE rounded

\* (mutation) the counters are left as they were when the array is replaced
FreshTableKeepsCounters(m, n) ==
    [m EXCEPT !.buckets = [i \in 1..RehashLength(n) |-> Bucket], !.rehashes = @ + 1]

\* buckets_.assign(new_bucket_count, Bucket{}); size_ = 0; tombstones_ = 0
FreshTable(m, n) ==
    [m EXCEPT !.buckets = [i \in 1..RehashLength(n) |-> Bucket],
              !.size = 0,
              !.tombstones = 0,
              !.rehashes = @ + 1]

\* (mutation) the loop over the old array starts at its second slot
RehashSkipsFirst(m, new_bucket_count) ==
    Reinsert(FreshTable(m, new_bucket_count), m.buckets, 2)

rehash(m, new_bucket_count) ==
    Reinsert(FreshTable(m, new_bucket_count), m.buckets, 1)

\* ------------------------------------------------------- public members
\* T* find(const Key&): the walk from bucket_index(k); n counts the slots visited
RECURSIVE FindLoop(_, _, _, _)
FindLoop(m, k, idx, n) ==
    IF n >= Len(m.buckets)
    THEN [ret |-> "hang", pos |-> NoSlot, value |-> DefaultValue]
    ELSE LET b == At(m.buckets, idx) IN
         IF b.state = Empty
         THEN [ret |-> "notfound", pos |-> NoSlot, value |-> DefaultValue]
         ELSE IF b.state = Filled /\ keyeq_(b.key, k)
         THEN [ret |-> "found", pos |-> idx, value |-> b.value]
         ELSE FindLoop(m, k, BitAnd(idx + 1, mask(m)), n + 1)

find(m, k) ==
    IF Len(m.buckets) = 0
    THEN [ret |-> "notfound", pos |-> NoSlot, value |-> DefaultValue]
    ELSE FindLoop(m, k, bucket_index(m, k), 0)

\* (mutation) erase gives the slot back as Empty and leaves no tombstone
EraseAtEmpties(m, idx) ==
    [m EXCEPT !.buckets[idx + 1].state = Empty, !.size = @ - 1]

\* (mutation) erase never compacts
EraseAtNoCompaction(m, idx) ==
    [m EXCEPT !.buckets[idx + 1].state = Deleted, !.size = @ - 1, !.tombstones = @ + 1]

\* the slot erase(k) has found: mark it, count it, compact if tombstones prevail
EraseAt(m, idx) ==
    LET m1 == [m EXCEPT !.buckets[idx + 1].state = Deleted,
                        !.size = @ - 1,
                        !.tombstones = @ + 1]
    IN IF m1.tombstones > Len(m1.buckets) \div 2
       THEN rehash(m1, Len(m1.buckets))
       ELSE m1

RECURSIVE EraseLoop(_, _, _, _)
EraseLoop(m, k, idx, n) ==
    IF n >= Len(m.buckets)
    THEN [m |-> [m EXCEPT !.hung = TRUE], ret |-> "hang"]
    ELSE LET b == At(m.buckets, idx) IN
         IF b.state = Empty
         THEN [m |-> m, ret |-> "absent"]
         ELSE IF b.state = Filled /\ keyeq_(b.key, k)
         THEN [m |-> EraseAt(m, idx), ret |-> "erased"]
         ELSE EraseLoop(m, k, BitAnd(idx + 1, mask(m)), n + 1)

erase(m, k) ==
    IF Len(m.buckets) = 0
    THEN [m |-> m, ret |-> "absent"]
    ELSE EraseLoop(m, k, bucket_index(m, k), 0)

\* (mutation) clear empties the Filled slots only and keeps the tombstones
ClearLiveOnly(m) ==
    [m EXCEPT !.buckets = [i \in DOMAIN m.buckets |->
                              IF m.buckets[i].state = Filled
                              THEN [m.buckets[i] EXCEPT !.state = Empty]
                              ELSE m.buckets[i]],
              !.size = 0]

clear(m) ==
    [m EXCEPT !.buckets = [i \in DOMAIN m.buckets |-> [m.buckets[i] EXCEPT !.state = Empty]],
              !.size = 0,
              !.tombstones = 0]

\* static_cast<size_type>(n / max_load_factor_) + 1
ReserveNeeded(m, n) == (n * 100) \div m.mlf + 1

reserve(m, n) ==
    IF ReserveNeeded(m, n) > Len(m.buckets) THEN rehash(m, ReserveNeeded(m, n)) ELSE m

\* (mutation) the two boundary factors are accepted
UnreasonableStrict(f) == f < 10 \/ f > 95

\* f <= 0.1f || f >= 0.95f
Unreasonable(f) == f <= 10 \/ f >= 95

max_load_factor(m, f) ==
    IF Unreasonable(f)
    THEN [m |-> m, ret |-> "throw"]
    ELSE [m |-> rehash_if_needed([m EXCEPT !.mlf = f]), ret |-> "ok"]

insert_or_assign(m, k, v) == insert_or_assign_impl(m, k, v)

\* T& operator[](const Key&): the slot whose value the returned reference names
subscript(m, k) ==
    LET p == find(m, k) IN
    IF p.ret = "hang" THEN [m |-> [m EXCEPT !.hung = TRUE], pos |-> NoSlot, ret |-> "hang"]
    ELSE IF p.ret = "found" THEN [m |-> m, pos |-> p.pos, ret |-> "found"]
    ELSE LET r == insert_or_assign(m, k, DefaultValue)
         IN [m |-> r.m, pos |-> r.pos, ret |-> IF r.m.hung THEN "hang" ELSE "inserted"]

\* fm[k] = v: operator[] and the assignment through the reference it returns
subscript_assign(m, k, v) ==
    LET r == subscript(m, k) IN
    IF r.m.hung THEN r
    ELSE [r EXCEPT !.m.buckets[r.pos + 1].value = v]

\* explicit flat_unordered_map(size_type bucket_count)
Construct(bucket_count) ==
    [buckets |-> [i \in 1..next_pow2(bucket_count) |-> Bucket], size |-> 0,
     tombstones |-> 0, mlf |-> DefaultMaxLoadFactor, hung |-> FALSE, rehashes |-> 0]

\* flat_unordered_map() = default
ConstructDefault ==
    [buckets |-> <<>>, size |-> 0, tombstones |-> 0, mlf |-> DefaultMaxLoadFactor,
     hung |-> FALSE, rehashes |-> 0]

\* ------------------------------------------------------- EntityManager
\* the values of struct Entity the callers can build
Entity == [id : EntityIds, name : Names, health : Healths]

\* std::unordered_map<int, size_t> as a function from the ids it holds
NoIndex == [i \in {} |-> 0]

\* indexOf.find(id) != indexOf.end()
Contains(ix, id) == id \in DOMAIN ix

\* indexOf[id] = index
Assign(ix, id, index) == [i \in DOMAIN ix \cup {id} |-> IF i = id THEN index ELSE ix[i]]

\* indexOf.erase(it), it being the element of key id
EraseKey(ix, id) == [i \in DOMAIN ix \ {id} |-> ix[i]]

\* entities[index] of the code is v[index + 1] here
ElementAt(v, index) == v[index + 1]

addEntity(e, id, name, health) ==
    IF Contains(e.indexOf, id)
    THEN e
    ELSE LET index == Len(e.entities) IN
         [entities |-> Append(e.entities, [id |-> id, name |-> name, health |-> health]),
          indexOf |-> Assign(e.indexOf, id, index)]

\* what the pointer getEntity returns can name: {} is nullptr; an index beyond
\* the vector reads whatever lies there
getEntity(e, id) ==
    IF ~Contains(e.indexOf, id) THEN {{}}
    ELSE IF e.indexOf[id] < Len(e.entities)
    THEN {{ElementAt(e.entities, e.indexOf[id])}}
    ELSE {{x} : x \in Entity}

\* (mutation) the last entity is moved but its index is not updated
MoveLastNoReindex(e, index, lastIndex) ==
    [e EXCEPT !.entities[index + 1] = ElementAt(e.entities, lastIndex)]

\* entities[index] = std::move(entities[lastIndex]); indexOf[entities[index].id] = index
MoveLast(e, index, lastIndex) ==
    [entities |-> [e.entities EXCEPT ![index + 1] = ElementAt(e.entities, lastIndex)],
     indexOf |-> Assign(e.indexOf, ElementAt(e.entities, lastIndex).id, index)]

removeEntity(e, id) ==
    IF ~Contains(e.indexOf, id)
    THEN e
    ELSE LET index == e.indexOf[id]
             lastIndex == Len(e.entities) - 1
             moved == IF index # lastIndex THEN MoveLast(e, index, lastIndex) ELSE e
         IN [entities |-> SubSeq(moved.entities, 1, Len(moved.entities) - 1),
             indexOf |-> EraseKey(moved.indexOf, id)]

\* EntityManager mgr;
NewManager == [entities |-> <<>>, indexOf |-> NoIndex]

\* what the last call of EntityManager was and which path it took
EmCall(op, id, ret, entity) == [op |-> op, id |-> id, ret |-> ret, entity |-> entity]

\* no call of EntityManager has been made
ManagerIdle ==
    /\ entities = NewManager.entities
    /\ indexOf = NewManager.indexOf
    /\ registry = {}
    /\ em_last = EmCall("ctor", 0, "ok", {})

\* ------------------------------------------------------------ the state
\* the table as the helpers take it, at the start of a call
Self ==
    [buckets |-> buckets_, size |-> size_, tombstones |-> tombstones_,
     mlf |-> max_load_factor_, hung |-> FALSE, rehashes |-> 0]

\* a slot as the calls to come can see it: key and value only while Filled
Visible(b) == [i \in DOMAIN b |-> IF b[i].state = Filled THEN b[i] ELSE [Bucket EXCEPT !.state = b[i].state]]

\* the table as a call leaves it
Commit(m) ==
    /\ buckets_' = Visible(m.buckets)
    /\ size_' = m.size
    /\ tombstones_' = m.tombstones
    /\ max_load_factor_' = m.mlf
    /\ hung' = m.hung
    /\ rehashes' = m.rehashes
    /\ UNCHANGED emvars

\* what the last call was and what it returned
Call(op, arg, ret, pos) == [op |-> op, arg |-> arg, ret |-> ret, pos |-> pos]

Init ==
    \E m \in {ConstructDefault} \cup {Construct(n) : n \in Requests} :
        /\ buckets_ = m.buckets
        /\ size_ = m.size
        /\ tombstones_ = m.tombstones
        /\ max_load_factor_ = m.mlf
        /\ hung = FALSE
        /\ rehashes = 0
        /\ last = Call("ctor", Len(m.buckets), "ok", NoSlot)
        /\ shadow = [k \in Keys |-> {}]
        /\ ManagerIdle

InsertOrAssign(k, v) ==
    /\ ~hung
    /\ \E r \in {insert_or_assign(Self, k, v)} :
        /\ Commit(r.m)
        /\ last' = Call("insert_or_assign", k,
                        IF r.m.hung THEN "hang" ELSE IF r.inserted THEN "inserted" ELSE "assigned",
                        r.pos)
    /\ shadow' = [shadow EXCEPT ![k] = {v}]

Find(k) ==
    /\ ~hung
    /\ \E r \in {find(Self, k)} :
        /\ Commit([Self EXCEPT !.hung = (r.ret = "hang")])
        /\ last' = Call("find", k, r.ret, r.pos)
    /\ UNCHANGED shadow

Subscript(k) ==
    /\ ~hung
    /\ \E r \in {subscript(Self, k)} :
        /\ Commit(r.m)
        /\ last' = Call("subscript", k, r.ret, r.pos)
    /\ shadow' = [shadow EXCEPT ![k] = IF @ = {} THEN {DefaultValue} ELSE @]

SubscriptAssign(k, v) ==
    /\ ~hung
    /\ \E r \in {subscript_assign(Self, k, v)} :
        /\ Commit(r.m)
        /\ last' = Call("subscript_assign", k, r.ret, r.pos)
    /\ shadow' = [shadow EXCEPT ![k] = {v}]

Erase(k) ==
    /\ ~hung
    /\ \E r \in {erase(Self, k)} :
        /\ Commit(r.m)
        /\ last' = Call("erase", k, r.ret, NoSlot)
    /\ shadow' = [shadow EXCEPT ![k] = {}]

Clear ==
    /\ ~hung
    /\ Commit(clear(Self))
    /\ last' = Call("clear", 0, "ok", NoSlot)
    /\ shadow' = [k \in Keys |-> {}]

Reserve(n) ==
    /\ ~hung
    /\ \E m \in {reserve(Self, n)} :
        /\ Commit(m)
        /\ last' = Call("reserve", n, IF m.hung THEN "hang" ELSE "ok", NoSlot)
    /\ UNCHANGED shadow

Rehash(n) ==
    /\ ~hung
    /\ \E m \in {rehash(Self, n)} :
        /\ Commit(m)
        /\ last' = Call("rehash", n, IF m.hung THEN "hang" ELSE "ok", NoSlot)
    /\ UNCHANGED shadow

MaxLoadFactor(f) ==
    /\ ~hung
    /\ \E r \in {max_load_factor(Self, f)} :
        /\ Commit(r.m)
        /\ last' = Call("max_load_factor", f,
                        IF r.m.hung THEN "hang" ELSE r.ret, NoSlot)
    /\ UNCHANGED shadow

Next ==
    \/ \E k \in Keys, v \in Values : InsertOrAssign(k, v)
    \/ \E k \in Keys : Find(k)
    \/ \E k \in Keys : Subscript(k)
    \/ \E k \in Keys, v \in Values : SubscriptAssign(k, v)
    \/ \E k \in Keys : Erase(k)
    \/ Clear
    \/ \E n \in Requests : Reserve(n)
    \/ \E n \in Requests : Rehash(n)
    \/ \E f \in FactorInputs : MaxLoadFactor(f)

Spec == Init /\ [][Next]_vars

\* ------------------------------------------- EntityManager: state, calls
\* the manager as its member functions take it
Manager == [entities |-> entities, indexOf |-> indexOf]

\* the manager as a call leaves it
Store(e) ==
    /\ entities' = e.entities
    /\ indexOf' = e.indexOf

\* a default-constructed table on which no call is made
TableIdle ==
    /\ buckets_ = ConstructDefault.buckets
    /\ size_ = ConstructDefault.size
    /\ tombstones_ = ConstructDefault.tombstones
    /\ max_load_factor_ = ConstructDefault.mlf
    /\ hung = FALSE
    /\ rehashes = 0
    /\ last = Call("ctor", 0, "ok", NoSlot)
    /\ shadow = [k \in Keys |-> {}]

EntityInit == ManagerIdle /\ TableIdle

AddEntity(id, name, health) ==
    /\ Store(addEntity(Manager, id, name, health))
    /\ em_last' = EmCall("addEntity", id,
                         IF Contains(indexOf, id) THEN "exists" ELSE "added", {})
    /\ registry' = IF \E r \in registry : r.id = id
                   THEN registry
                   ELSE registry \cup {[id |-> id, name |-> name, health |-> health]}
    /\ UNCHANGED vars

GetEntity(id) ==
    /\ \E p \in getEntity(Manager, id) :
          em_last' = EmCall("getEntity", id, IF p = {} THEN "nullptr" ELSE "found", p)
    /\ UNCHANGED <<entities, indexOf, registry>>
    /\ UNCHANGED vars

RemoveEntity(id) ==
    /\ Store(removeEntity(Manager, id))
    /\ em_last' = EmCall("removeEntity", id,
                         IF ~Contains(indexOf, id) THEN "absent"
                         ELSE IF indexOf[id] # Len(entities) - 1 THEN "swapped"
                         ELSE "popped", {})
    /\ registry' = {r \in registry : r.id # id}
    /\ UNCHANGED vars

EntityNext ==
    \/ \E id \in EntityIds, name \in Names, health \in Healths : AddEntity(id, name, health)
    \/ \E id \in EntityIds : GetEntity(id)
    \/ \E id \in EntityIds : RemoveEntity(id)

EntitySpec == EntityInit /\ [][EntityNext]_emvars

\* ------------------------------------------------------------ properties
bucket_count == Len(buckets_)

Slots == DOMAIN buckets_

\* the calls that can put a key in the table
InsertCalls == {"insert_or_assign", "subscript", "subscript_assign"}

\* the last call returned (its probe loops ended)
Returned == ~hung

\* how many Filled slots of b hold the pair <<k, v>>
LiveCount(b, k, v) ==
    Cardinality({i \in DOMAIN b : b[i].state = Filled /\ b[i].key = k /\ b[i].value = v})

StoredValues == {DefaultValue} \cup Values

IsPowerOfTwo(n) == \E e \in 0..30 : n = 2 ^ e

\* what find(k) gives in the state as it is
Lookup(k) == find(Self, k)

\* C1: after any sequence of calls, find(k) returns the value last stored for k,
\* and not-found for a key that was never stored or was erased or cleared since.
C1_RoundTrip ==
    Returned =>
        \A k \in Keys :
            IF shadow[k] = {}
            THEN Lookup(k).ret = "notfound"
            ELSE Lookup(k).ret = "found" /\ shadow[k] = {Lookup(k).value}

\* C2: in every state the calls can reach, storage that exists has an Empty slot,
\* and find(k) and erase(k) return for every key k, present or absent.
C2_ProbeTerminates ==
    Returned =>
        /\ bucket_count > 0 => \E i \in Slots : buckets_[i].state = Empty
        /\ \A k \in Keys : Lookup(k).ret # "hang" /\ erase(Self, k).ret # "hang"

\* C3: when insert_or_assign or an inserting operator[] has returned,
\* (size + tombstones) / bucket_count <= max_load_factor.
C3_LoadBoundAfterInsert ==
    (Returned /\ last.op \in InsertCalls /\ last.ret \in {"inserted", "assigned"})
        => ~LoadExceeds(Self)

\* C4: no two Filled slots hold equal keys.
C4_KeyUniqueness ==
    \A i, j \in Slots :
        (i # j /\ buckets_[i].state = Filled /\ buckets_[j].state = Filled)
            => ~keyeq_(buckets_[i].key, buckets_[j].key)

\* C4 witness: an insert has assigned to a key whose slot lies behind a tombstone
\* on its probe walk (the slot before it, which is not its home slot, is Deleted).
C4_Witness ==
    /\ Returned
    /\ last.op = "insert_or_assign"
    /\ last.ret = "assigned"
    /\ last.pos # bucket_index(Self, last.arg)
    /\ At(buckets_, BitAnd(last.pos + bucket_count - 1, mask(Self))).state = Deleted

\* C5: size() is the number of Filled slots, the tombstone counter the number of
\* Deleted slots, and their sum is at most bucket_count().
C5_CounterAccounting ==
    /\ size_ = Cardinality({i \in Slots : buckets_[i].state = Filled})
    /\ tombstones_ = Cardinality({i \in Slots : buckets_[i].state = Deleted})
    /\ size_ + tombstones_ <= bucket_count

\* C5 witness: a call has run a rehash inside a rehash and left live entries
\* beside a table that holds them.
C5_Witness == Returned /\ rehashes >= 2 /\ size_ >= 3

\* C6: bucket_count() is 0 or a power of two >= 2.
C6_PowerOfTwo == bucket_count = 0 \/ (bucket_count >= 2 /\ IsPowerOfTwo(bucket_count))

\* C6 witness: reserve has asked rehash for a length that is no power of two
\* (6, for one entry at factor 0.2) and storage has 8 slots.
C6_Witness ==
    /\ Returned
    /\ last.op = "reserve"
    /\ rehashes > 0
    /\ ~IsPowerOfTwo(ReserveNeeded(Self, last.arg))
    /\ bucket_count = 8

\* the key a call stores or removes, if it does
Touched(call) == IF call.op \in InsertCalls \cup {"erase"} THEN call.arg ELSE NoSlot

\* C7: a call that rehashes (to grow before an insert, to compact after an erase,
\* in reserve, in max_load_factor, in rehash(n), nested or not) leaves the multiset
\* of Filled (key, value) pairs as it was, but for the key the call itself stores
\* or removes.
C7_RehashPreserves ==
    [][(rehashes' > 0 /\ ~hung')
         => \A k \in Keys \ {Touched(last')} : \A v \in StoredValues :
                LiveCount(buckets_', k, v) = LiveCount(buckets_, k, v)]_vars

\* C7 witness: rehash(n) with n below size() has returned after a nested rehash.
C7_Witness ==
    /\ Returned
    /\ last.op = "rehash"
    /\ last.arg < size_
    /\ rehashes >= 2
    /\ size_ >= 3

\* the step is a call of erase that returned true
ErasedStep == ~hung' /\ last'.op = "erase" /\ last'.ret = "erased"

\* C8: an erase that leaves tombstones > bucket_count/2 rehashes at the same
\* length: when it returns tombstones = 0, bucket_count() is unchanged and the
\* other live keys are found with their values; so tombstones <= bucket_count/2
\* after every erase.
C8_CompactionOnErase ==
    [][/\ (~hung' /\ last'.op = "erase") => tombstones_' <= Len(buckets_') \div 2
       /\ (ErasedStep /\ tombstones_ + 1 > bucket_count \div 2) =>
            /\ rehashes' > 0
            /\ tombstones_' = 0
            /\ Len(buckets_') = bucket_count
            /\ \A k \in Keys \ {last'.arg} :
                  Lookup(k).ret = "found" =>
                      /\ find(Self', k).ret = "found"
                      /\ find(Self', k).value = Lookup(k).value]_vars

\* C8 witness: an erase has compacted a table in which a live key remains.
C8_Witness ==
    /\ Returned
    /\ last.op = "erase"
    /\ last.ret = "erased"
    /\ rehashes > 0
    /\ tombstones_ = 0
    /\ size_ > 0

\* C9: after erase(k) returns true, find(k) reports not-found and size() is one
\* less; insert_or_assign(k, v) next reports newly-inserted, restores size(), and
\* changes bucket_count() only if the load was above the factor at that insert.
C9_EraseThenReinsert ==
    [][/\ ErasedStep =>
            /\ size_' = size_ - 1
            /\ find(Self', last'.arg).ret = "notfound"
       /\ (/\ ~hung /\ last.op = "erase" /\ last.ret = "erased"
           /\ last'.op = "insert_or_assign" /\ last'.arg = last.arg) =>
            /\ ~hung'
            /\ last'.ret = "inserted"
            /\ size_' = size_ + 1
            /\ Len(buckets_') # bucket_count => LoadExceeds(Self)]_vars

\* C10: max_load_factor(f) with f <= 0.1 or f >= 0.95 fails and leaves the factor,
\* the slots, size(), tombstones and bucket_count() as they were.
C10_InvalidFactor ==
    [][(last'.op = "max_load_factor" /\ (last'.arg <= 10 \/ last'.arg >= 95))
         => /\ last'.ret = "throw"
            /\ UNCHANGED <<buckets_, size_, tombstones_, max_load_factor_>>]_vars

\* C10 witness: the boundary factor 0.1 has been refused on a table without storage.
C10_Witness ==
    /\ last.op = "max_load_factor"
    /\ last.arg = 10
    /\ last.ret = "throw"
    /\ bucket_count = 0

\* the keys find does not report in the table m
AbsentKeys(m) == {k \in Keys : find(m, k).ret # "found"}

\* n further keys of the set absent can be inserted into m, one after the other
\* and in any order, with no rehash and with the load never above the factor
RECURSIVE FurtherInsertsFit(_, _, _)
FurtherInsertsFit(m, absent, n) ==
    IF n = 0 THEN TRUE
    ELSE \A k \in absent : \A v \in Values :
            LET r == insert_or_assign(m, k, v) IN
                /\ ~r.m.hung
                /\ r.m.rehashes = m.rehashes
                /\ ~LoadExceeds(r.m)
                /\ FurtherInsertsFit(r.m, absent \ {k}, n - 1)

\* ceil(n / max_load_factor) + 1, the length reserve(n) is to provide
SufficientLength(m, n) == (n * 100 + m.mlf - 1) \div m.mlf + 1

\* C11: when reserve(n) has returned, n further keys that are not in the table
\* can be inserted with the load never above max_load_factor and with no growth
\* rehash; and reserve rehashes only if the length it found was below
\* ceil(n / max_load_factor) + 1.
C11_ReserveFits ==
    [][(~hung' /\ last'.op = "reserve") =>
          /\ FurtherInsertsFit(Self', AbsentKeys(Self'), last'.arg)
          /\ rehashes' > 0 => bucket_count < SufficientLength(Self, last'.arg)]_vars

\* the (key, value) pairs find reports in the table m
VisiblePairs(m) == {<<k, find(m, k).value>> : k \in {x \in Keys : find(m, x).ret = "found"}}

\* the step is a call of insert_or_assign that repeats the call before it:
\* the same key, and the value that call stored
RepeatedInsert ==
    /\ ~hung
    /\ last.op = "insert_or_assign"
    /\ last'.op = "insert_or_assign"
    /\ last'.arg = last.arg
    /\ shadow'[last.arg] = shadow[last.arg]

\* C12: insert_or_assign(k, v) called twice in a row with the same k and v: the
\* second call reports not-newly-inserted and leaves size() and the set of
\* (key, value) pairs visible through find as they were.
C12_InsertIdempotent ==
    [][RepeatedInsert =>
          /\ ~hung'
          /\ last'.ret = "assigned"
          /\ size_' = size_
          /\ VisiblePairs(Self') = VisiblePairs(Self)]_vars

\* C12 witness: an insert_or_assign has found its key present with the value it
\* was given to store, after growing a table that another live key shares.
C12_Witness ==
    /\ Returned
    /\ last.op = "insert_or_assign"
    /\ last.ret = "assigned"
    /\ rehashes > 0
    /\ size_ >= 2

\* a Filled slot holds the key k
KeyStored(k) == \E i \in Slots : buckets_[i].state = Filled /\ keyeq_(buckets_[i].key, k)

\* C13: erase(k) returns true if a Filled slot held k before the call and false
\* if none did; when it returns false the slots, size(), the tombstone counter,
\* bucket_count() and the factor are as they were.
C13_EraseResult ==
    [][last'.op = "erase" =>
          /\ last'.ret = (IF KeyStored(last'.arg) THEN "erased" ELSE "absent")
          /\ last'.ret = "absent" =>
                UNCHANGED <<buckets_, size_, tombstones_, max_load_factor_>>]_vars

\* C14: operator[](k) on an absent key inserts k with the default value, size()
\* rises by one, and the slot the returned reference names is the one find(k)
\* returns next; on a present key it names the slot that holds k and the table
\* is as it was (no rehash, same slots, size() and bucket_count()).
C14_DefaultAccess ==
    [][last'.op = "subscript" =>
          IF KeyStored(last'.arg)
          THEN /\ last'.ret = "found"
               /\ last'.pos = Lookup(last'.arg).pos
               /\ rehashes' = 0
               /\ UNCHANGED <<buckets_, size_, tombstones_, max_load_factor_>>
          ELSE /\ last'.ret = "inserted"
               /\ size_' = size_ + 1
               /\ find(Self', last'.arg).ret = "found"
               /\ find(Self', last'.arg).pos = last'.pos
               /\ find(Self', last'.arg).value = DefaultValue]_vars

\* C15: clear() leaves every slot Empty and size() and the tombstone counter 0,
\* with bucket_count() and max_load_factor as they were; then find(k) reports
\* not-found for every key and any key is inserted as newly-inserted.
C15_Clear ==
    [][last'.op = "clear" =>
          /\ \A i \in DOMAIN buckets_' : buckets_'[i].state = Empty
          /\ size_' = 0
          /\ tombstones_' = 0
          /\ Len(buckets_') = bucket_count
          /\ max_load_factor_' = max_load_factor_
          /\ \A k \in Keys : find(Self', k).ret = "notfound"
          /\ \A k \in Keys, v \in Values :
                LET r == insert_or_assign(Self', k, v) IN
                    /\ ~r.m.hung
                    /\ r.inserted
                    /\ r.m.size = 1]_vars

\* C15 witness: clear() has run on a table of 4 slots whose factor had been
\* changed to 0.94.
C15_Witness ==
    /\ last.op = "clear"
    /\ bucket_count = 4
    /\ max_load_factor_ = 94
    /\ size_ = 0

\* C16: immediately after every growth check (rehash_if_needed, run before each
\* insert attempt and by max_load_factor(f) with a valid f),
\* (size + tombstones) / bucket_count <= max_load_factor.
C16_GrowthCheckPost ==
    Returned =>
        /\ ~LoadExceeds(rehash_if_needed(Self))
        /\ \A f \in FactorInputs :
              ~Unreasonable(f) => ~LoadExceeds(rehash_if_needed([Self EXCEPT !.mlf = f]))

\* C17: insert_or_assign(k, v) on a key that a Filled slot holds writes v into
\* that slot of the same array: no rehash, bucket_count(), size(), the tombstone
\* counter and every other slot are as they were, and the call reports
\* not-newly-inserted.
C17_AssignInPlace ==
    [][(last'.op = "insert_or_assign" /\ KeyStored(last'.arg)) =>
          /\ ~hung'
          /\ last'.ret = "assigned"
          /\ rehashes' = 0
          /\ Len(buckets_') = bucket_count
          /\ size_' = size_
          /\ tombstones_' = tombstones_
          /\ last'.pos = Lookup(last'.arg).pos
          /\ \A i \in Slots :
                IF i = last'.pos + 1
                THEN /\ buckets_'[i].state = Filled
                     /\ buckets_'[i].key = last'.arg
                     /\ shadow'[last'.arg] = {buckets_'[i].value}
                ELSE buckets_'[i] = buckets_[i]]_vars

\* the slot the probe walk of key k visits at its step j (0 is the home slot)
WalkSlot(m, k, j) == BitAnd(bucket_index(m, k) + j, mask(m))

\* the first step, from step j on, at which the walk of k meets a slot in state
\* st; Len(m.buckets) if it meets none
RECURSIVE FirstStep(_, _, _, _)
FirstStep(m, k, st, j) ==
    IF j >= Len(m.buckets) THEN Len(m.buckets)
    ELSE IF At(m.buckets, WalkSlot(m, k, j)).state = st THEN j
    ELSE FirstStep(m, k, st, j + 1)

\* first Deleted slot met before the first Empty slot if there is one, else that
\* Empty slot
ReuseTarget(m, k) ==
    LET firstEmpty == FirstStep(m, k, Empty, 0)
        firstDeleted == FirstStep(m, k, Deleted, 0)
    IN WalkSlot(m, k, IF firstDeleted < firstEmpty THEN firstDeleted ELSE firstEmpty)

\* C18: when insert_or_assign inserts an absent key k, the slot it fills (in the
\* array as its growth check leaves it) is the first Deleted slot on the walk
\* from hash(k) & mask if the walk meets one before the first Empty slot, and
\* that Empty slot otherwise; size() rises by one, the tombstone counter falls
\* by one exactly when a Deleted slot is reused, no other slot changes, and
\* the returned position is the Filled slot holding k.
C18_TombstoneReuse ==
    [][(last'.op = "insert_or_assign" /\ ~KeyStored(last'.arg)) =>
          \E m1 \in {rehash_if_needed(Self)} :
          \E target \in {ReuseTarget(m1, last'.arg)} :
          \E before \in {Visible(m1.buckets)} :
             /\ ~hung'
             /\ last'.ret = "inserted"
             /\ last'.pos = target
             /\ size_' = size_ + 1
             /\ tombstones_' = IF At(before, target).state = Deleted
                               THEN m1.tombstones - 1
                               ELSE m1.tombstones
             /\ Len(buckets_') = Len(before)
             /\ \A i \in DOMAIN buckets_' :
                   IF i = target + 1
                   THEN buckets_'[i].state = Filled /\ buckets_'[i].key = last'.arg
                   ELSE buckets_'[i] = before[i]]_vars

\* C18 witness: a table that needs no growth, in which the walk of an absent key
\* passes a Filled slot, then a Deleted slot, and the insert fills that Deleted
\* slot and takes the tombstone counter down by one.
C18_Witness ==
    /\ Returned
    /\ ~LoadExceeds(Self)
    /\ \E k \in AbsentKeys(Self) :
          /\ bucket_count > 0
          /\ At(buckets_, WalkSlot(Self, k, 0)).state = Filled
          /\ At(buckets_, WalkSlot(Self, k, 1)).state = Deleted
          /\ \E v \in Values :
                LET r == insert_or_assign(Self, k, v) IN
                    /\ r.inserted
                    /\ r.pos = WalkSlot(Self, k, 1)
                    /\ r.m.tombstones = tombstones_ - 1

\* the slots whose state the step changes
ChangedSlots == {i \in Slots : buckets_'[i].state # buckets_[i].state}

\* the change of state of slot i is one the call of the step may make
SlotStepAllowed(i) ==
    LET from == buckets_[i].state
        to == buckets_'[i].state
    IN \/ to = from
       \/ /\ from \in {Empty, Deleted}
          /\ to = Filled
          /\ last'.op \in InsertCalls
          /\ buckets_'[i].key = last'.arg
       \/ /\ from = Filled
          /\ to = Deleted
          /\ last'.op = "erase"
          /\ buckets_[i].key = last'.arg
       \/ /\ to = Empty
          /\ last'.op = "clear"

\* C19: in a step that keeps the storage array (no rehash), a slot goes only
\* Empty -> Filled or Deleted -> Filled (an insert of the key it then holds),
\* Filled -> Deleted (an erase of the key it held) or keeps its state; it
\* becomes Empty only through clear(); Empty never becomes Deleted; an insert
\* or an erase changes the state of at most one slot.
C19_SlotStateMachine ==
    [][(~hung' /\ rehashes' = 0) =>
          /\ Len(buckets_') = bucket_count
          /\ \A i \in Slots : SlotStepAllowed(i)
          /\ last'.op \in InsertCalls \cup {"erase"} => Cardinality(ChangedSlots) <= 1]_vars

\* C19 witness: an erase without compaction has left its slot Deleted beside a
\* Filled slot and an Empty slot.
C19_Witness ==
    /\ Returned
    /\ last.op = "erase"
    /\ last.ret = "erased"
    /\ rehashes = 0
    /\ tombstones_ >= 1
    /\ size_ >= 1
    /\ \E i \in Slots : buckets_[i].state = Empty

\* indexOf and entities are in bijection
IndexConsistent ==
    /\ Cardinality(DOMAIN indexOf) = Len(entities)
    /\ \A id \in DOMAIN indexOf :
          /\ indexOf[id] >= 0
          /\ indexOf[id] < Len(entities)
          /\ ElementAt(entities, indexOf[id]).id = id
    /\ \A i \in DOMAIN entities :
          /\ Contains(indexOf, entities[i].id)
          /\ indexOf[entities[i].id] = i - 1

\* getEntity(id) points to the entity added under id and not removed since, and
\* is nullptr if there is none
GetEntityExact ==
    \A id \in EntityIds : getEntity(Manager, id) = {{r \in registry : r.id = id}}

\* C20: after any sequence of addEntity and removeEntity calls indexOf and
\* entities are in bijection (indexOf has entities.size() entries, each
\* indexOf[id] = i has i < entities.size() and entities[i].id = id), getEntity(id)
\* returns the entity with that id exactly when it was added and not removed
\* since, through the removal of the last, a middle or the only entity; and
\* addEntity of an id that exists changes nothing.
C20_IndexConsistency ==
    /\ [](IndexConsistent /\ GetEntityExact)
    /\ [][(em_last'.op = "addEntity" /\ Contains(indexOf, em_last'.id))
            => UNCHANGED <<entities, indexOf>>]_emvars

\* C20 witness: a middle entity has been removed by swap-and-pop, the entity
\* moved into its place is not the only one left, and getEntity finds it.
C20_Witness ==
    /\ em_last.op = "removeEntity"
    /\ em_last.ret = "swapped"
    /\ Len(entities) >= 2
    /\ \E id \in DOMAIN indexOf : getEntity(Manager, id) # {{}}

====
